---- MODULE Spec2Model ----
(***************************************************************************)
(* Model of polyscope's render::ManagedBuffer<T>                           *)
(* (src/src/render/managed_buffer.cpp): the host / device / needs-compute  *)
(* residency protocol of one data buffer and of the index buffers that key *)
(* its cache of indexed views.                                             *)
(*                                                                         *)
(* One ManagedBuffer<T> (DataBuf) and the ManagedBuffer<uint32_t> objects  *)
(* in IndexBufs are modelled with the same handlers.  C++ indices are      *)
(* 0-based, TLA+ sequences 1-based: element i of a vector is seq[i + 1].   *)
(***************************************************************************)
EXTENDS Integers, Sequences, FiniteSets, TLC

\* ---------------------------------------------------------------- bounds
MaxLen == 2

\* ------------------------------------------------------------- universes
\* one ManagedBuffer<T> and the ManagedBuffer<uint32_t> objects that index it
DataBuf == 1
IndexBufs == {2, 3}
AllBufs == {DataBuf} \cup IndexBufs

\* element values of the data buffer, and of an index buffer
Values == {10, 11}
IndexValues == 0 .. (MaxLen - 1)

SeqsUpTo(S, n) == UNION {[1 .. k -> S] : k \in 0 .. n}

ElemDomain(b) == IF b = DataBuf THEN Values ELSE IndexValues

\* the vectors a producer hands over or a compute callback produces: for the
\* data buffer the alternating vector <<10, 11, 10, ...>> of each length and
\* <<11, 10, 11, ...>> of the full length, for an index buffer the reversal
\* <<n-1, ..., 0>> of each length
Alt(n, v) == [k \in 1 .. n |-> IF k % 2 = 1 THEN v ELSE 21 - v]
Rev(n) == [k \in 1 .. n |-> n - k]
Produced(b) ==
  IF b = DataBuf THEN {Alt(n, 10) : n \in 0 .. MaxLen} \cup {Alt(MaxLen, 11)}
  ELSE {Rev(n) : n \in 0 .. MaxLen}

\* device buffers: the render attribute buffer of buffer b is object b, the
\* view buffers are the objects of ViewIds
ViewIds == {10 * n : n \in 1 .. 3}
AttrIds == AllBufs \cup ViewIds
NoBuffer == 0
Expired == 0
NoValue == 0 - 1
Free == [alive |-> FALSE, val |-> <<>>]
NoProgram == [set |-> FALSE, val_in |-> NoBuffer, val_out |-> NoBuffer,
              hasIndex |-> FALSE, index |-> <<>>]

\* the outcomes of an out-of-range element read (undefined behaviour): the
\* process dies, or each read position yields some value
DefaultUB == [crash |-> FALSE, junk |-> [k \in 1 .. MaxLen |-> 10]]
UBOutcomes == {[crash |-> TRUE, junk |-> DefaultUB.junk]} \cup
              {[crash |-> FALSE, junk |-> j] : j \in [1 .. MaxLen -> Values]}

VARIABLES
  dataGetsComputed,       \* [AllBufs -> BOOLEAN], fixed at construction
  hostBufferIsPopulated,  \* [AllBufs -> BOOLEAN]
  data,                   \* [AllBufs -> host vector]
  renderAttributeBuffer,  \* [AllBufs -> AttrIds \cup {NoBuffer}]
  existingIndexedViews,   \* [AllBufs -> Seq(ExistingViewEntry)]
  attr,                   \* [AttrIds -> device contents, or Free]
  handles,                \* view buffers some caller holds a shared_ptr to
  lastCall,               \* the operation that ran last
  result,                 \* its outcome: [err, ret]
  events                  \* what it did, in order

vars == <<dataGetsComputed, hostBufferIsPopulated, data, renderAttributeBuffer,
          existingIndexedViews, attr, handles, lastCall, result, events>>

\* ------------------------------------------------- the working state
\* The handlers are operators from a record of the program state to the
\* record after the call.  Besides the program state the record carries the
\* call's outcome (err, ret), the log of what the call did, and the inputs
\* the environment supplies during the call: co[b], what buffer b's compute
\* callback produces, and ubOut, the outcome of an out-of-range read.
St(co, ubOut) ==
  [pop |-> hostBufferIsPopulated, data |-> data, rab |-> renderAttributeBuffer,
   views |-> existingIndexedViews, attr |-> attr, handles |-> handles,
   err |-> "none", ret |-> NoValue, log |-> <<>>,
   ub |-> FALSE, co |-> co, ubOut |-> ubOut]

Ok(s) == s.err = "none"
Ev(s, e) == [s EXCEPT !.log = Append(@, e)]

\* exception(msg): every error raises to the caller
exception(s, e) == [s EXCEPT !.err = e]

\* polyscope::requestRedraw()
requestRedraw(s) == Ev(s, <<"requestRedraw", 0>>)

\* ---------------------------------------------- the render engine's buffers
\* generateAttributeBuffer<T>(engine): a new, empty device buffer
FreshAttr(s) == CHOOSE i \in ViewIds :
                  /\ ~s.attr[i].alive
                  /\ \A j \in ViewIds : ~s.attr[j].alive => i <= j
generateAttributeBuffer(s, id) ==
  Ev([s EXCEPT !.attr[id] = [alive |-> TRUE, val |-> <<>>]], <<"generateAttributeBuffer", id>>)

\* AttributeBuffer::setData(vector)
setData(s, id, d) == Ev([s EXCEPT !.attr[id].val = d], <<"setData", id>>)

\* AttributeBuffer::getDataSize()
getDataSize(s, id) == Len(s.attr[id].val)

\* gather(input, perm): out[k] = input[perm[k]]; an out-of-range perm[k] is
\* an out-of-range read of the vector
InRange(input, perm) == \A k \in 1 .. Len(perm) : perm[k] < Len(input)
gather(input, perm, junk) ==
  [k \in 1 .. Len(perm) |->
     IF perm[k] < Len(input) THEN input[perm[k] + 1] ELSE junk[k]]

\* std::vector<T> expandData = gather(data, indices.data);
\* viewBuffer.setData(expandData);
gatherAndSet(s, id, input, perm) ==
  IF InRange(input, perm)
    THEN setData(Ev(s, <<"gather", id>>), id, gather(input, perm, DefaultUB.junk))
    ELSE IF s.ubOut.crash
      THEN [exception(s, "crash") EXCEPT !.ub = TRUE]
      ELSE [setData(Ev(s, <<"gather", id>>), id, gather(input, perm, s.ubOut.junk))
              EXCEPT !.ub = TRUE]

\* ShaderProgram::computeFeedback() of the gather program p: the device
\* writes val_in[index[k]] to val_out[k] for every k of the index stream
computeFeedback(s, p) ==
  IF ~p.hasIndex THEN exception(s, "engine")
  ELSE LET input == s.attr[p.val_in].val
           s1 == Ev(s, <<"computeFeedback", p.val_out>>)
       IN IF InRange(input, p.index)
            THEN [s1 EXCEPT !.attr[p.val_out].val = gather(input, p.index, DefaultUB.junk)]
            ELSE IF s.ubOut.crash
              THEN [exception(s, "crash") EXCEPT !.ub = TRUE]
              ELSE [s1 EXCEPT !.attr[p.val_out].val = gather(input, p.index, s.ubOut.junk),
                              !.ub = TRUE]

\* ------------------------------------------------------------ ManagedBuffer
RECURSIVE ensureHostBufferPopulated(_, _)
RECURSIVE markHostBufferUpdated(_, _)
RECURSIVE updateIndexedViews(_, _)
RECURSIVE updateIndexedViewsLoop(_, _, _)

\* mutant: the device buffer is preferred to a populated host
M_currentCanonicalDataSource_deviceFirst(s, b) ==
  IF s.rab[b] # NoBuffer THEN "RenderBuffer"
  ELSE IF s.pop[b] THEN "HostData"
  ELSE IF dataGetsComputed[b] THEN "NeedsCompute"
  ELSE "exception"

\* mutant: a host that is not populated is taken to be on the device
M_currentCanonicalDataSource_assumeDevice(s, b) ==
  IF s.pop[b] THEN "HostData" ELSE "RenderBuffer"

\* CanonicalDataSource ManagedBuffer<T>::currentCanonicalDataSource();
\* "exception" stands for the raise at the end of the function
currentCanonicalDataSource(s, b) ==
  IF s.pop[b] THEN "HostData"
  ELSE IF s.rab[b] # NoBuffer THEN "RenderBuffer"
  ELSE IF dataGetsComputed[b] THEN "NeedsCompute"
  ELSE "exception"

\* mutant: invalidating the host also drops the device buffer
M_invalidateHostBuffer_dropDevice(s, b) ==
  Ev([s EXCEPT !.pop[b] = FALSE, !.data[b] = <<>>, !.rab[b] = NoBuffer],
     <<"invalidateHostBuffer", b>>)

\* mutant: invalidating the host also refreshes the indexed views
M_invalidateHostBuffer_refresh(s, b) ==
  updateIndexedViews(
    Ev([s EXCEPT !.pop[b] = FALSE, !.data[b] = <<>>], <<"invalidateHostBuffer", b>>), b)

\* void ManagedBuffer<T>::invalidateHostBuffer()
invalidateHostBuffer(s, b) ==
  Ev([s EXCEPT !.pop[b] = FALSE, !.data[b] = <<>>], <<"invalidateHostBuffer", b>>)

\* weak_ptr::expired() of an entry's viewBuffer
IsExpired(e) == e.viewBuffer = Expired

\* mutant: expired entries are never erased
M_removeDeletedIndexedViews_keep(s, b) == s

\* void ManagedBuffer<T>::removeDeletedIndexedViews(); the log records how
\* many entries an erase removed
removeDeletedIndexedViews(s, b) ==
  LET kept == SelectSeq(s.views[b], LAMBDA e : ~IsExpired(e))
      s1 == [s EXCEPT !.views[b] = kept]
  IN IF Len(kept) = Len(s.views[b]) THEN s1
     ELSE Ev(s1, <<"erase", Len(s.views[b]) - Len(kept)>>)

\* computeFunc(): the producer's callback fills the host vector and calls
\* markHostBufferUpdated() when done
computeFunc(s, b) ==
  markHostBufferUpdated(
    Ev([s EXCEPT !.data[b] = s.co[b]], <<"computeFunc", b>>), b)

\* mutant: a buffer that gets computed is computed on every call
M_ensureHostBufferPopulated_alwaysCompute(s, b) ==
  IF ~Ok(s) THEN s
  ELSE LET src == currentCanonicalDataSource(s, b) IN
    CASE src = "exception" -> exception(s, "consistency")
      [] src = "HostData" -> IF dataGetsComputed[b] THEN computeFunc(s, b) ELSE s
      [] src = "NeedsCompute" -> computeFunc(s, b)
      [] src = "RenderBuffer" ->
           IF s.rab[b] = NoBuffer THEN exception(s, "internal")
           ELSE Ev([s EXCEPT !.data[b] = s.attr[s.rab[b]].val],
                   <<"getAttributeBufferDataRange", s.rab[b]>>)

\* void ManagedBuffer<T>::ensureHostBufferPopulated()
ensureHostBufferPopulated(s, b) ==
  IF ~Ok(s) THEN s
  ELSE LET src == currentCanonicalDataSource(s, b) IN
    CASE src = "exception" -> exception(s, "consistency")
      [] src = "HostData" -> s
      [] src = "NeedsCompute" -> computeFunc(s, b)
      [] src = "RenderBuffer" ->
           IF s.rab[b] = NoBuffer THEN exception(s, "internal")
           ELSE Ev([s EXCEPT !.data[b] = s.attr[s.rab[b]].val],
                   <<"getAttributeBufferDataRange", s.rab[b]>>)

\* mutant: the program is requested and bound on every refresh
M_ensureHaveBufferIndexCopyProgram_rebuild(s, b, k) ==
  LET e == s.views[b][k] IN
  IF s.rab[b] = NoBuffer THEN exception(s, "internal")
  ELSE LET p0 == [set |-> TRUE, val_in |-> s.rab[b], val_out |-> e.viewBuffer,
                  hasIndex |-> FALSE, index |-> <<>>]
           s1 == Ev([s EXCEPT !.views[b][k].deviceUpdateProgram = p0],
                    <<"requestShader", e.viewBuffer>>)
           s2 == ensureHostBufferPopulated(s1, e.indices)
       IN IF ~Ok(s2) THEN s2
          ELSE [s2 EXCEPT !.views[b][k].deviceUpdateProgram.hasIndex = TRUE,
                          !.views[b][k].deviceUpdateProgram.index = s2.data[e.indices]]

\* void ManagedBuffer<T>::ensureHaveBufferIndexCopyProgram(deviceUpdateProgram,
\* indices, target), for entry k of buffer b
ensureHaveBufferIndexCopyProgram(s, b, k) ==
  LET e == s.views[b][k] IN
  IF e.deviceUpdateProgram.set THEN s
  ELSE IF s.rab[b] = NoBuffer THEN exception(s, "internal")
  ELSE LET p0 == [set |-> TRUE, val_in |-> s.rab[b], val_out |-> e.viewBuffer,
                  hasIndex |-> FALSE, index |-> <<>>]
           s1 == Ev([s EXCEPT !.views[b][k].deviceUpdateProgram = p0],
                    <<"requestShader", e.viewBuffer>>)
           s2 == ensureHostBufferPopulated(s1, e.indices)
       IN IF ~Ok(s2) THEN s2
          ELSE [s2 EXCEPT !.views[b][k].deviceUpdateProgram.hasIndex = TRUE,
                          !.views[b][k].deviceUpdateProgram.index = s2.data[e.indices]]

\* mutant: a view is refreshed only on the device path
M_updateOneView_deviceOnly(s, b, k) ==
  LET e == s.views[b][k]
      src == currentCanonicalDataSource(s, b)
  IN IF IsExpired(e) THEN s
     ELSE CASE src = "exception" -> exception(s, "consistency")
            [] src = "HostData" -> s
            [] src = "NeedsCompute" -> exception(s, "needs_compute")
            [] src = "RenderBuffer" ->
                 LET s1 == ensureHaveBufferIndexCopyProgram(s, b, k)
                 IN IF ~Ok(s1) THEN s1
                    ELSE computeFeedback(s1, s1.views[b][k].deviceUpdateProgram)

\* one iteration of the loop of updateIndexedViews, for entry k of buffer b
updateOneView(s, b, k) ==
  LET e == s.views[b][k]
      src == currentCanonicalDataSource(s, b)
  IN IF IsExpired(e) THEN s
     ELSE CASE src = "exception" -> exception(s, "consistency")
            [] src = "HostData" ->
                 LET s1 == ensureHostBufferPopulated(s, e.indices)
                 IN IF ~Ok(s1) THEN s1
                    ELSE gatherAndSet(s1, e.viewBuffer, s1.data[b], s1.data[e.indices])
            [] src = "NeedsCompute" -> exception(s, "needs_compute")
            [] src = "RenderBuffer" ->
                 LET s1 == ensureHaveBufferIndexCopyProgram(s, b, k)
                 IN IF ~Ok(s1) THEN s1
                    ELSE computeFeedback(s1, s1.views[b][k].deviceUpdateProgram)

updateIndexedViewsLoop(s, b, k) ==
  IF ~Ok(s) \/ k > Len(s.views[b]) THEN s
  ELSE updateIndexedViewsLoop(updateOneView(s, b, k), b, k + 1)

\* void ManagedBuffer<T>::updateIndexedViews()
updateIndexedViews(s, b) ==
  updateIndexedViewsLoop(
    Ev(removeDeletedIndexedViews(s, b), <<"updateIndexedViews", b>>), b, 1)

\* mutant: the host is not marked populated
M_markHostBufferUpdated_noFlag(s, b) ==
  LET s1 == Ev(s, <<"markHostBufferUpdated", b>>)
      s2 == IF s1.rab[b] # NoBuffer
              THEN requestRedraw(setData(s1, s1.rab[b], s1.data[b]))
              ELSE s1
  IN updateIndexedViews(s2, b)

\* mutant: the views are refreshed before the device buffer is overwritten
M_markHostBufferUpdated_viewsFirst(s, b) ==
  LET s1 == Ev([s EXCEPT !.pop[b] = TRUE], <<"markHostBufferUpdated", b>>)
      s2 == updateIndexedViews(s1, b)
  IN IF ~Ok(s2) THEN s2
     ELSE IF s2.rab[b] # NoBuffer
       THEN requestRedraw(setData(s2, s2.rab[b], s2.data[b]))
       ELSE s2

\* void ManagedBuffer<T>::markHostBufferUpdated()
markHostBufferUpdated(s, b) ==
  LET s1 == Ev([s EXCEPT !.pop[b] = TRUE], <<"markHostBufferUpdated", b>>)
      s2 == IF s1.rab[b] # NoBuffer
              THEN requestRedraw(setData(s1, s1.rab[b], s1.data[b]))
              ELSE s1
  IN updateIndexedViews(s2, b)

\* mutant: an index past the end yields the dummy return value
M_getValue_dummy(s, b, ind) ==
  LET src == currentCanonicalDataSource(s, b) IN
  CASE src = "exception" -> exception(s, "consistency")
    [] src = "HostData" ->
         IF ind >= Len(s.data[b]) THEN [s EXCEPT !.ret = 0]
         ELSE [s EXCEPT !.ret = s.data[b][ind + 1]]
    [] src = "NeedsCompute" ->
         LET s1 == computeFunc(s, b)
         IN IF ~Ok(s1) THEN s1
            ELSE IF ind >= Len(s1.data[b]) THEN [s1 EXCEPT !.ret = 0]
            ELSE [s1 EXCEPT !.ret = s1.data[b][ind + 1]]
    [] src = "RenderBuffer" ->
         IF ind >= getDataSize(s, s.rab[b]) THEN [s EXCEPT !.ret = 0]
         ELSE Ev([s EXCEPT !.ret = s.attr[s.rab[b]].val[ind + 1]],
                 <<"getAttributeBufferData", s.rab[b]>>)

\* mutant: a buffer that gets computed is recomputed before every read
M_getValue_recompute(s, b, ind) ==
  LET s1 == IF dataGetsComputed[b] THEN computeFunc(s, b) ELSE s
  IN IF ~Ok(s1) THEN s1
     ELSE IF ind >= Len(s1.data[b]) THEN exception(s1, "out_of_range")
     ELSE [s1 EXCEPT !.ret = s1.data[b][ind + 1]]

\* mutant: a read populates the host array first
M_getValue_populate(s, b, ind) ==
  LET s1 == ensureHostBufferPopulated(s, b)
  IN IF ~Ok(s1) THEN s1
     ELSE IF ind >= Len(s1.data[b]) THEN exception(s1, "out_of_range")
     ELSE [s1 EXCEPT !.ret = s1.data[b][ind + 1]]

\* T ManagedBuffer<T>::getValue(size_t ind)
getValue(s, b, ind) ==
  LET src == currentCanonicalDataSource(s, b) IN
  CASE src = "exception" -> exception(s, "consistency")
    [] src = "HostData" ->
         IF ind >= Len(s.data[b]) THEN exception(s, "out_of_range")
         ELSE [s EXCEPT !.ret = s.data[b][ind + 1]]
    [] src = "NeedsCompute" ->
         LET s1 == computeFunc(s, b)
         IN IF ~Ok(s1) THEN s1
            ELSE IF ind >= Len(s1.data[b]) THEN exception(s1, "out_of_range")
            ELSE [s1 EXCEPT !.ret = s1.data[b][ind + 1]]
    [] src = "RenderBuffer" ->
         IF ind >= getDataSize(s, s.rab[b]) THEN exception(s, "out_of_range")
         ELSE Ev([s EXCEPT !.ret = s.attr[s.rab[b]].val[ind + 1]],
                 <<"getAttributeBufferData", s.rab[b]>>)

\* mutant: the size of a buffer that needs compute is unknown
M_size_invalidInd(s, b) ==
  LET src == currentCanonicalDataSource(s, b) IN
  CASE src = "exception" -> exception(s, "consistency")
    [] src = "HostData" -> [s EXCEPT !.ret = Len(s.data[b])]
    [] src = "NeedsCompute" -> [s EXCEPT !.ret = NoValue]
    [] src = "RenderBuffer" -> [s EXCEPT !.ret = getDataSize(s, s.rab[b])]

\* size_t ManagedBuffer<T>::size()
size(s, b) ==
  LET src == currentCanonicalDataSource(s, b) IN
  CASE src = "exception" -> exception(s, "consistency")
    [] src = "HostData" -> [s EXCEPT !.ret = Len(s.data[b])]
    [] src = "NeedsCompute" -> [s EXCEPT !.ret = 0]
    [] src = "RenderBuffer" -> [s EXCEPT !.ret = getDataSize(s, s.rab[b])]

\* mutant: hasData() answers from the canonical source
M_hasData_viaSource(s, b) ==
  LET src == currentCanonicalDataSource(s, b) IN
  IF src = "exception" THEN exception(s, "consistency")
  ELSE [s EXCEPT !.ret = (src # "NeedsCompute")]

\* bool ManagedBuffer<T>::hasData()
hasData(s, b) == [s EXCEPT !.ret = (s.pop[b] \/ s.rab[b] # NoBuffer)]

\* mutant: no quick out, the buffer is recomputed in every state
M_recomputeIfPopulated_always(s, b) ==
  IF ~dataGetsComputed[b] THEN exception(s, "usage")
  ELSE LET s1 == computeFunc(invalidateHostBuffer(s, b), b)
       IN IF ~Ok(s1) THEN s1 ELSE markHostBufferUpdated(s1, b)

\* mutant: the host is invalidated before the sanity check
M_recomputeIfPopulated_invalidateFirst(s, b) ==
  LET s0 == invalidateHostBuffer(s, b) IN
  IF ~dataGetsComputed[b] THEN exception(s0, "usage")
  ELSE IF currentCanonicalDataSource(s, b) = "NeedsCompute" THEN s
  ELSE LET s1 == computeFunc(s0, b)
       IN IF ~Ok(s1) THEN s1 ELSE markHostBufferUpdated(s1, b)

\* void ManagedBuffer<T>::recomputeIfPopulated()
recomputeIfPopulated(s, b) ==
  IF ~dataGetsComputed[b] THEN exception(s, "usage")
  ELSE IF currentCanonicalDataSource(s, b) = "NeedsCompute" THEN s
  ELSE LET s1 == computeFunc(invalidateHostBuffer(s, b), b)
       IN IF ~Ok(s1) THEN s1 ELSE markHostBufferUpdated(s1, b)

\* mutant: the device buffer is allocated before the host is populated
M_getRenderAttributeBuffer_allocateFirst(s, b) ==
  IF s.rab[b] # NoBuffer THEN [s EXCEPT !.ret = s.rab[b]]
  ELSE LET s0 == [generateAttributeBuffer(s, b) EXCEPT !.rab[b] = b]
           s1 == ensureHostBufferPopulated(s0, b)
       IN IF ~Ok(s1) THEN s1
          ELSE [setData(s1, b, s1.data[b]) EXCEPT !.ret = b]

\* shared_ptr<AttributeBuffer> ManagedBuffer<T>::getRenderAttributeBuffer()
getRenderAttributeBuffer(s, b) ==
  IF s.rab[b] # NoBuffer THEN [s EXCEPT !.ret = s.rab[b]]
  ELSE LET s1 == ensureHostBufferPopulated(s, b)
       IN IF ~Ok(s1) THEN s1
          ELSE [setData(generateAttributeBuffer(s1, b), b, s1.data[b])
                  EXCEPT !.rab[b] = b, !.ret = b]

\* mutant: the views are refreshed before the host is invalidated
M_markRenderAttributeBufferUpdated_refreshFirst(s, b) ==
  LET s1 == updateIndexedViews(s, b)
  IN IF ~Ok(s1) THEN s1 ELSE requestRedraw(invalidateHostBuffer(s1, b))

\* mutant: a refresh that raises is rolled back
M_markRenderAttributeBufferUpdated_rollback(s, b) ==
  LET s1 == updateIndexedViews(invalidateHostBuffer(s, b), b)
  IN IF ~Ok(s1) THEN exception(s, s1.err) ELSE requestRedraw(s1)

\* void ManagedBuffer<T>::markRenderAttributeBufferUpdated()
markRenderAttributeBufferUpdated(s, b) ==
  LET s1 == updateIndexedViews(invalidateHostBuffer(s, b), b)
  IN IF ~Ok(s1) THEN s1 ELSE requestRedraw(s1)

\* mutant: the index buffers are given the same id
M_uniqueID_shared(b) == IF b \in IndexBufs THEN 2 ELSE b

\* ManagedBuffer::uniqueID, from internal::getNextUniqueID()
uniqueID(b) == b

\* mutant: the lookup never finds an entry
M_CacheHits_none(s, b, ib) == {}

\* mutant: the lookup looks at the first entry only
M_CacheHits_firstOnly(s, b, ib) ==
  {k \in 1 .. Len(s.views[b]) :
     /\ k = 1
     /\ ~IsExpired(s.views[b][k])
     /\ s.views[b][k].indices = ib}

\* the entries the lookup loop of getIndexedRenderAttributeBuffer accepts
CacheHits(s, b, ib) ==
  {k \in 1 .. Len(s.views[b]) :
     /\ ~IsExpired(s.views[b][k])
     /\ uniqueID(s.views[b][k].indices) = uniqueID(ib)}

\* mutant: a miss gathers without populating the index buffer
M_getIndexedRenderAttributeBuffer_indexNotEnsured(s, b, ib) ==
  LET s0 == removeDeletedIndexedViews(s, b)
      hits == CacheHits(s0, b, ib)
  IN IF hits # {}
       THEN LET k == CHOOSE k \in hits : \A j \in hits : k <= j
                v == s0.views[b][k].viewBuffer
            IN [s0 EXCEPT !.ret = v, !.handles = @ \cup {v}]
       ELSE LET s1 == ensureHostBufferPopulated(s0, b)
                id == FreshAttr(s1)
                s2 == generateAttributeBuffer(s1, id)
                s4 == gatherAndSet(s2, id, s2.data[b], s2.data[ib])
            IN IF ~Ok(s1) THEN s1
               ELSE IF ~Ok(s4) THEN s4
               ELSE [s4 EXCEPT
                       !.views[b] = Append(@, [indices |-> ib, viewBuffer |-> id,
                                               deviceUpdateProgram |-> NoProgram]),
                       !.ret = id, !.handles = @ \cup {id}]

\* shared_ptr<AttributeBuffer>
\* ManagedBuffer<T>::getIndexedRenderAttributeBuffer(ManagedBuffer<uint32_t>& indices)
getIndexedRenderAttributeBuffer(s, b, ib) ==
  LET s0 == removeDeletedIndexedViews(s, b)
      hits == CacheHits(s0, b, ib)
  IN IF hits # {}
       THEN LET k == CHOOSE k \in hits : \A j \in hits : k <= j
                v == s0.views[b][k].viewBuffer
            IN [s0 EXCEPT !.ret = v, !.handles = @ \cup {v}]
       ELSE LET s1 == ensureHostBufferPopulated(s0, b)
                id == FreshAttr(s1)
                s2 == generateAttributeBuffer(s1, id)
                s3 == ensureHostBufferPopulated(s2, ib)
                s4 == gatherAndSet(s3, id, s3.data[b], s3.data[ib])
            IN IF ~Ok(s1) THEN s1
               ELSE IF ~Ok(s3) THEN [s3 EXCEPT !.attr[id] = Free]
               ELSE IF ~Ok(s4) THEN s4
               ELSE [s4 EXCEPT
                       !.views[b] = Append(@, [indices |-> ib, viewBuffer |-> id,
                                               deviceUpdateProgram |-> NoProgram]),
                       !.ret = id, !.handles = @ \cup {id}]

\* ------------------------------------------------------------------ actions
Alive == result.err # "crash"
HasFreeAttr == \E i \in ViewIds : ~attr[i].alive

Call(op, b, arg) == [op |-> op, buf |-> b, arg |-> arg]
Returned(v) == [err |-> "none", ret |-> v]

\* the buffers a call on the buffers of S can reach: S, the index buffers of
\* their views, the index buffers of those buffers' views, and so on (a
\* callback ends with markHostBufferUpdated(), which refreshes the views of
\* the buffer it computed)
ViewIndices(c) ==
  {existingIndexedViews[c][k].indices : k \in 1 .. Len(existingIndexedViews[c])}
RECURSIVE ViewClosure(_)
ViewClosure(S) ==
  LET T == S \cup UNION {ViewIndices(c) : c \in S}
  IN IF T = S THEN S ELSE ViewClosure(T)

\* the buffers whose compute callback a call on buffer b (with index buffers
\* ibs) can run: those it can reach that need compute, and those in forced
MayCompute(b, ibs, forced) ==
  {c \in ViewClosure({b} \cup ibs) :
     /\ dataGetsComputed[c]
     /\ \/ c \in forced
        \/ ~hostBufferIsPopulated[c] /\ renderAttributeBuffer[c] = NoBuffer}

\* the choices of what each callback of cs produces
RECURSIVE ComputeChoicesOver(_, _)
ComputeChoicesOver(S, cs) ==
  IF S = {} THEN {<<>>}
  ELSE LET c == CHOOSE x \in S : TRUE
       IN {(c :> d) @@ f : d \in (IF c \in cs THEN Produced(c) ELSE {<<>>}),
                           f \in ComputeChoicesOver(S \ {c}, cs)}
ComputeChoices(cs) == ComputeChoicesOver(AllBufs, cs)

\* the program state becomes that of record s; a process that died of an
\* out-of-range read has no state left
Commit(s, call) ==
  /\ lastCall' = call
  /\ result' = [err |-> s.err, ret |-> s.ret]
  /\ UNCHANGED dataGetsComputed
  /\ IF s.err = "crash"
       THEN /\ hostBufferIsPopulated' = [b \in AllBufs |-> FALSE]
            /\ data' = [b \in AllBufs |-> <<>>]
            /\ renderAttributeBuffer' = [b \in AllBufs |-> NoBuffer]
            /\ existingIndexedViews' = [b \in AllBufs |-> <<>>]
            /\ attr' = [i \in AttrIds |-> Free]
            /\ handles' = {}
            /\ events' = <<>>
       ELSE /\ hostBufferIsPopulated' = s.pop
            /\ data' = s.data
            /\ renderAttributeBuffer' = s.rab
            /\ existingIndexedViews' = s.views
            /\ attr' = s.attr
            /\ handles' = s.handles
            /\ events' = s.log

\* run handler H; when the run reads out of range, every outcome of that
\* read is a possible result
Do(H(_), call, cs) ==
  /\ Alive
  /\ \E co \in ComputeChoices(cs) :
       LET r0 == H(St(co, DefaultUB))
       IN IF r0.ub
            THEN \E u \in UBOutcomes : Commit(H(St(co, u)), call)
            ELSE Commit(r0, call)

EnsureHostBufferPopulated(b) ==
  Do(LAMBDA s : ensureHostBufferPopulated(s, b),
     Call("ensureHostBufferPopulated", b, 0), MayCompute(b, {}, {}))

MarkHostBufferUpdated(b) ==
  Do(LAMBDA s : markHostBufferUpdated(s, b),
     Call("markHostBufferUpdated", b, 0), MayCompute(b, {}, {}))

GetValue(b, ind) ==
  Do(LAMBDA s : getValue(s, b, ind), Call("getValue", b, ind), MayCompute(b, {}, {}))

Size(b) == Do(LAMBDA s : size(s, b), Call("size", b, 0), {})

HasData(b) == Do(LAMBDA s : hasData(s, b), Call("hasData", b, 0), {})

RecomputeIfPopulated(b) ==
  Do(LAMBDA s : recomputeIfPopulated(s, b),
     Call("recomputeIfPopulated", b, 0), MayCompute(b, {}, {b}))

GetRenderAttributeBuffer(b) ==
  Do(LAMBDA s : getRenderAttributeBuffer(s, b),
     Call("getRenderAttributeBuffer", b, 0), MayCompute(b, {}, {}))

\* the refresh can run the callbacks of the views' index buffers (line 299),
\* never the buffer's own
MarkRenderAttributeBufferUpdated(b) ==
  Do(LAMBDA s : markRenderAttributeBufferUpdated(s, b),
     Call("markRenderAttributeBufferUpdated", b, 0), MayCompute(b, {}, {}) \ {b})

InvalidateHostBuffer(b) ==
  Do(LAMBDA s : invalidateHostBuffer(s, b), Call("invalidateHostBuffer", b, 0), {})

GetIndexedRenderAttributeBuffer(b, ib) ==
  /\ HasFreeAttr
  /\ Do(LAMBDA s : getIndexedRenderAttributeBuffer(s, b, ib),
        Call("getIndexedRenderAttributeBuffer", b, ib), MayCompute(b, {ib}, {}))

\* mutant: a device-update program holds no reference to its target
M_ProgramHolds_never(h) == FALSE

\* a device-update program holds a shared_ptr to its target
ProgramHolds(h) ==
  \E b \in AllBufs : \E k \in 1 .. Len(existingIndexedViews[b]) :
     LET p == existingIndexedViews[b][k].deviceUpdateProgram
     IN p.set /\ p.val_out = h

\* a caller drops its shared_ptr to view buffer h; the buffer dies, and the
\* cache's weak_ptr to it expires, unless a device-update program holds it
ReleaseHandle(h) ==
  /\ Alive
  /\ h \in handles
  /\ handles' = handles \ {h}
  /\ IF ProgramHolds(h)
       THEN UNCHANGED <<attr, existingIndexedViews>>
       ELSE /\ attr' = [attr EXCEPT ![h] = Free]
            /\ existingIndexedViews' =
                 [b \in AllBufs |->
                    [k \in 1 .. Len(existingIndexedViews[b]) |->
                       IF existingIndexedViews[b][k].viewBuffer = h
                         THEN [existingIndexedViews[b][k] EXCEPT !.viewBuffer = Expired]
                         ELSE existingIndexedViews[b][k]]]
  /\ lastCall' = Call("releaseHandle", 0, h)
  /\ result' = Returned(NoValue)
  /\ events' = <<>>
  /\ UNCHANGED <<dataGetsComputed, hostBufferIsPopulated, data, renderAttributeBuffer>>

\* the producer writes element ind of the host vector it owns
HostWrite(b, ind, v) ==
  /\ Alive
  /\ ind < Len(data[b])
  /\ data' = [data EXCEPT ![b][ind + 1] = v]
  /\ lastCall' = Call("hostWrite", b, ind)
  /\ result' = Returned(NoValue)
  /\ events' = <<>>
  /\ UNCHANGED <<dataGetsComputed, hostBufferIsPopulated, renderAttributeBuffer,
                 existingIndexedViews, attr, handles>>

\* the producer assigns the host vector it owns
HostAssign(b, d) ==
  /\ Alive
  /\ data' = [data EXCEPT ![b] = d]
  /\ lastCall' = Call("hostAssign", b, 0)
  /\ result' = Returned(NoValue)
  /\ events' = <<>>
  /\ UNCHANGED <<dataGetsComputed, hostBufferIsPopulated, renderAttributeBuffer,
                 existingIndexedViews, attr, handles>>

\* device code writes element ind of the render attribute buffer of b
DeviceWrite(b, ind, v) ==
  /\ Alive
  /\ renderAttributeBuffer[b] # NoBuffer
  /\ ind < Len(attr[renderAttributeBuffer[b]].val)
  /\ attr' = [attr EXCEPT ![renderAttributeBuffer[b]].val[ind + 1] = v]
  /\ lastCall' = Call("deviceWrite", b, ind)
  /\ result' = Returned(NoValue)
  /\ events' = <<>>
  /\ UNCHANGED <<dataGetsComputed, hostBufferIsPopulated, data, renderAttributeBuffer,
                 existingIndexedViews, handles>>

\* device code rewrites the render attribute buffer of b
DeviceAssign(b, d) ==
  /\ Alive
  /\ renderAttributeBuffer[b] # NoBuffer
  /\ attr' = [attr EXCEPT ![renderAttributeBuffer[b]].val = d]
  /\ lastCall' = Call("deviceAssign", b, 0)
  /\ result' = Returned(NoValue)
  /\ events' = <<>>
  /\ UNCHANGED <<dataGetsComputed, hostBufferIsPopulated, data, renderAttributeBuffer,
                 existingIndexedViews, handles>>

\* ManagedBuffer(name, data): bound to populated host storage;
\* ManagedBuffer(name, data, computeFunc): computed on demand
InitOf(ibs) ==
  /\ dataGetsComputed \in [AllBufs -> BOOLEAN]
  /\ \A b \in IndexBufs \ ibs : ~dataGetsComputed[b]
  /\ hostBufferIsPopulated = [b \in AllBufs |-> ~dataGetsComputed[b]]
  /\ data \in [AllBufs -> UNION {Produced(b) : b \in AllBufs}]
  /\ \A b \in AllBufs :
       IF dataGetsComputed[b] \/ b \in IndexBufs \ ibs
         THEN data[b] = <<>> ELSE data[b] \in Produced(b)
  /\ renderAttributeBuffer = [b \in AllBufs |-> NoBuffer]
  /\ existingIndexedViews = [b \in AllBufs |-> <<>>]
  /\ attr = [i \in AttrIds |-> Free]
  /\ handles = {}
  /\ lastCall = Call("construct", 0, 0)
  /\ result = Returned(NoValue)
  /\ events = <<>>

\* -------------------------------------------------------- specifications
\* Spec: every operation of one ManagedBuffer that has no indexed views
Init == InitOf({})

Next ==
  \/ EnsureHostBufferPopulated(DataBuf)
  \/ MarkHostBufferUpdated(DataBuf)
  \/ \E ind \in 0 .. MaxLen : GetValue(DataBuf, ind)
  \/ Size(DataBuf)
  \/ HasData(DataBuf)
  \/ RecomputeIfPopulated(DataBuf)
  \/ GetRenderAttributeBuffer(DataBuf)
  \/ MarkRenderAttributeBufferUpdated(DataBuf)
  \/ InvalidateHostBuffer(DataBuf)
  \/ \E ind \in 0 .. (MaxLen - 1) : \E v \in Values : HostWrite(DataBuf, ind, v)
  \/ \E ind \in 0 .. (MaxLen - 1) : \E v \in Values : DeviceWrite(DataBuf, ind, v)

Spec == Init /\ [][Next]_vars

\* SpecViews: a ManagedBuffer and the indexed views of it that are keyed by
\* one index buffer, which is computed on demand and can be invalidated, so
\* that a later refresh computes it anew
OneIndex == {2}

InitViews == InitOf(OneIndex) /\ \A b \in OneIndex : dataGetsComputed[b]

NextViews ==
  \/ EnsureHostBufferPopulated(DataBuf)
  \/ \E b \in {DataBuf} \cup OneIndex : MarkHostBufferUpdated(b)
  \/ RecomputeIfPopulated(DataBuf)
  \/ GetRenderAttributeBuffer(DataBuf)
  \/ MarkRenderAttributeBufferUpdated(DataBuf)
  \/ \E b \in {DataBuf} \cup OneIndex : InvalidateHostBuffer(b)
  \/ \E ib \in OneIndex : GetIndexedRenderAttributeBuffer(DataBuf, ib)
  \/ \E h \in ViewIds : ReleaseHandle(h)
  \/ \E d \in Produced(DataBuf) : HostAssign(DataBuf, d)
  \/ \E d \in Produced(DataBuf) : DeviceAssign(DataBuf, d)

SpecViews == InitViews /\ [][NextViews]_vars

\* SpecTwo: a ManagedBuffer and its indexed views keyed by two index
\* buffers, each bound to a populated host vector of indices
InitTwo ==
  /\ InitOf(IndexBufs)
  /\ \A b \in IndexBufs : ~dataGetsComputed[b] /\ data[b] = Rev(MaxLen)

NextTwo ==
  \/ MarkHostBufferUpdated(DataBuf)
  \/ GetRenderAttributeBuffer(DataBuf)
  \/ MarkRenderAttributeBufferUpdated(DataBuf)
  \/ \E ib \in IndexBufs : GetIndexedRenderAttributeBuffer(DataBuf, ib)
  \/ \E h \in ViewIds : ReleaseHandle(h)

SpecTwo == InitTwo /\ [][NextTwo]_vars

\* Nested views: the index buffers are computed and index buffer 2 has a view
\* of its own over index buffer 3, so that a refresh of the data buffer's view
\* can run the callback of 2, whose markHostBufferUpdated() refreshes the view
\* of 2 and runs the callback of 3.
InitNested ==
  /\ InitOf(IndexBufs)
  /\ ~dataGetsComputed[DataBuf] /\ data[DataBuf] = Alt(MaxLen, 10)
  /\ \A b \in IndexBufs : dataGetsComputed[b]

NextNested ==
  \/ MarkHostBufferUpdated(DataBuf)
  \/ GetIndexedRenderAttributeBuffer(DataBuf, 2)
  \/ GetIndexedRenderAttributeBuffer(2, 3)
  \/ \E b \in IndexBufs : InvalidateHostBuffer(b)
  \/ \E h \in ViewIds : ReleaseHandle(h)

SpecNested == InitNested /\ [][NextNested]_vars

\* ------------------------------------------------------------------- claims
NoCompute == [b \in AllBufs |-> <<>>]
Cur == St(NoCompute, DefaultUB)
Source(b) == currentCanonicalDataSource(Cur, b)
Count(log, e) == Cardinality({k \in 1 .. Len(log) : log[k] = e})
Tags(log) == {log[k][1] : k \in 1 .. Len(log)}
Views(b) == existingIndexedViews[b]
ExpiredEntries(b) == {k \in 1 .. Len(Views(b)) : IsExpired(Views(b)[k])}
Keys(vs) == [k \in 1 .. Len(vs) |-> <<vs[k].indices, vs[k].viewBuffer>>]

\* C1 (as claimed): in every reachable state canonical-source resolution of
\* the buffer yields HostData, RenderBuffer or NeedsCompute; the state "host
\* not populated, no device buffer, no compute function" is never reached.
C1_SourceAlwaysResolves ==
  Alive => Source(DataBuf) \in {"HostData", "RenderBuffer", "NeedsCompute"}

\* C2: when markHostBufferUpdated() has run on a buffer its canonical source
\* is HostData, whatever the state before, and a source that is HostData stays
\* HostData over every step that is not invalidateHostBuffer,
\* markRenderAttributeBufferUpdated or recomputeIfPopulated on that buffer.
C2_HostDataAfterMarkHostUpdated ==
  [][\A b \in AllBufs :
       result'.err # "crash" =>
         /\ lastCall' = Call("markHostBufferUpdated", b, 0) => Source(b)' = "HostData"
         /\ ( /\ Source(b) = "HostData"
              /\ ~ ( /\ lastCall'.buf = b
                     /\ lastCall'.op \in {"invalidateHostBuffer",
                                          "markRenderAttributeBufferUpdated",
                                          "recomputeIfPopulated"} ) )
            => Source(b)' = "HostData"]_vars

C2_Witness ==
  /\ lastCall = Call("markHostBufferUpdated", DataBuf, 0)
  /\ result.err = "none"
  /\ renderAttributeBuffer[DataBuf] # NoBuffer
  /\ dataGetsComputed[DataBuf]
  /\ Len(Views(DataBuf)) > 0
  /\ Source(DataBuf) = "HostData"

\* C3: resolution returns HostData if the host is populated, else
\* RenderBuffer if a device buffer exists, else NeedsCompute if the buffer
\* gets computed, else it raises; a populated host wins over a device buffer
\* and a device buffer over the ability to compute.
C3_ResolutionOrder ==
  \A b \in AllBufs :
    /\ hostBufferIsPopulated[b] => Source(b) = "HostData"
    /\ ~hostBufferIsPopulated[b] /\ renderAttributeBuffer[b] # NoBuffer
         => Source(b) = "RenderBuffer"
    /\ ~hostBufferIsPopulated[b] /\ renderAttributeBuffer[b] = NoBuffer
         /\ dataGetsComputed[b] => Source(b) = "NeedsCompute"
    /\ ~hostBufferIsPopulated[b] /\ renderAttributeBuffer[b] = NoBuffer
         /\ ~dataGetsComputed[b] => Source(b) = "exception"

C3_Witness ==
  /\ hostBufferIsPopulated[DataBuf]
  /\ renderAttributeBuffer[DataBuf] # NoBuffer
  /\ dataGetsComputed[DataBuf]
  /\ Source(DataBuf) = "HostData"

\* C4: when markHostBufferUpdated() has returned, every indexed view of the
\* buffer that has not expired holds [data[indices[k]] : k] for the host
\* array and the index buffer's host array as they are then (for indices that
\* are in range of the data).
C4_ViewsFreshAfterMarkHostUpdated ==
  (lastCall = Call("markHostBufferUpdated", DataBuf, 0) /\ result.err = "none") =>
    \A k \in 1 .. Len(Views(DataBuf)) :
      LET e == Views(DataBuf)[k] IN
        (~IsExpired(e) /\ InRange(data[DataBuf], data[e.indices])) =>
          attr[e.viewBuffer].val =
            [j \in 1 .. Len(data[e.indices]) |-> data[DataBuf][data[e.indices][j] + 1]]

C4_Witness ==
  /\ lastCall = Call("markHostBufferUpdated", DataBuf, 0)
  /\ result.err = "none"
  /\ \E k \in 1 .. Len(Views(DataBuf)) :
       /\ Views(DataBuf)[k].viewBuffer \in handles
       /\ data[DataBuf] = <<10, 11>>
       /\ data[Views(DataBuf)[k].indices] = <<1, 0>>
       /\ attr[Views(DataBuf)[k].viewBuffer].val = <<11, 10>>

\* C5 (as claimed): whenever size() returns n, getValue(n) raises
\* out-of-range, whichever source is canonical.
C5_GetValueAtSizeRaises ==
  [][\A n \in 0 .. MaxLen :
       ( /\ Ok(size(Cur, DataBuf))
         /\ size(Cur, DataBuf).ret = n
         /\ lastCall' = Call("getValue", DataBuf, n) )
       => result'.err = "out_of_range"]_vars

\* C5 (amended): whenever size() returns n and the canonical source is
\* HostData or RenderBuffer, getValue(n) raises out-of-range and changes
\* nothing; when the source is NeedsCompute, size() returns 0 and getValue(0)
\* runs computeFunc first and raises out-of-range exactly when the computed
\* array is empty.
C5_GetValueAtSizeRaisesUnlessComputed ==
  [][\A n \in 0 .. MaxLen :
       ( /\ Ok(size(Cur, DataBuf))
         /\ size(Cur, DataBuf).ret = n
         /\ lastCall' = Call("getValue", DataBuf, n) )
       => IF Source(DataBuf) = "NeedsCompute"
            THEN /\ n = 0
                 /\ Count(events', <<"computeFunc", DataBuf>>) = 1
                 /\ (result'.err = "out_of_range") <=> (data'[DataBuf] = <<>>)
                 /\ result'.err = "none" => result'.ret = data'[DataBuf][1]
            ELSE /\ result'.err = "out_of_range"
                 /\ UNCHANGED <<hostBufferIsPopulated, data, renderAttributeBuffer,
                                existingIndexedViews, attr, handles>>]_vars

C5_Witness ==
  /\ lastCall = Call("getValue", DataBuf, MaxLen)
  /\ result.err = "out_of_range"
  /\ Source(DataBuf) = "RenderBuffer"
  /\ Len(attr[renderAttributeBuffer[DataBuf]].val) = MaxLen

\* C6 (as claimed): when ensureHostBufferPopulated() has returned without
\* error, hostBufferIsPopulated is true, the canonical source is HostData and
\* a following ensureHostBufferPopulated() computes nothing and reads nothing
\* back from the device.
C6_EnsurePopulatedMakesHostCanonical ==
  (lastCall = Call("ensureHostBufferPopulated", DataBuf, 0) /\ result.err = "none") =>
    /\ hostBufferIsPopulated[DataBuf]
    /\ Source(DataBuf) = "HostData"
    /\ \A co \in ComputeChoices({DataBuf}) :
         Tags(ensureHostBufferPopulated(St(co, DefaultUB), DataBuf).log)
           \cap {"computeFunc", "getAttributeBufferDataRange"} = {}

\* C7: a getValue(i) that follows markHostBufferUpdated(), for i in range of
\* the host array, returns the host array's element i (what the producer
\* wrote there) and does not invoke computeFunc, with or without a compute
\* function and with or without a device buffer.
C7_ReadAfterHostWrite ==
  [][\A i \in 0 .. (MaxLen - 1) :
       ( /\ lastCall = Call("markHostBufferUpdated", DataBuf, 0)
         /\ result.err = "none"
         /\ i < Len(data[DataBuf])
         /\ lastCall' = Call("getValue", DataBuf, i) )
       => /\ result' = Returned(data[DataBuf][i + 1])
          /\ "computeFunc" \notin Tags(events')]_vars

C7_Witness ==
  /\ lastCall = Call("getValue", DataBuf, 1)
  /\ result = Returned(10)
  /\ hostBufferIsPopulated[DataBuf]
  /\ data[DataBuf] = <<10, 10>>
  /\ dataGetsComputed[DataBuf]
  /\ renderAttributeBuffer[DataBuf] # NoBuffer
  /\ attr[renderAttributeBuffer[DataBuf]].val = <<10, 10>>

\* C8: on a buffer that gets computed, ensureHostBufferPopulated() invokes
\* computeFunc once if the source is NeedsCompute and not at all otherwise,
\* and a call that directly follows another invokes it never, so two calls
\* in a row invoke it at most once.
C8_LazyComputeIdempotent ==
  [][( /\ dataGetsComputed[DataBuf]
       /\ lastCall' = Call("ensureHostBufferPopulated", DataBuf, 0)
       /\ result'.err # "crash" )
     => /\ Count(events', <<"computeFunc", DataBuf>>) =
             (IF Source(DataBuf) = "NeedsCompute" THEN 1 ELSE 0)
        /\ lastCall = Call("ensureHostBufferPopulated", DataBuf, 0)
             => /\ Count(events', <<"computeFunc", DataBuf>>) = 0
                /\ Count(events, <<"computeFunc", DataBuf>>)
                     + Count(events', <<"computeFunc", DataBuf>>) <= 1]_vars

C8_Witness ==
  /\ lastCall = Call("ensureHostBufferPopulated", DataBuf, 0)
  /\ result.err = "none"
  /\ dataGetsComputed[DataBuf]
  /\ Count(events, <<"computeFunc", DataBuf>>) = 1
  /\ hostBufferIsPopulated[DataBuf]
  /\ Len(data[DataBuf]) = MaxLen

\* C9: a getIndexedRenderAttributeBuffer call that directly follows a
\* successful one with the same index buffer returns the same device buffer,
\* gathers, allocates and uploads nothing and leaves the cache as it is.
C9_ViewCacheHit ==
  [][\A ib \in IndexBufs :
       ( /\ lastCall = Call("getIndexedRenderAttributeBuffer", DataBuf, ib)
         /\ result.err = "none"
         /\ lastCall' = Call("getIndexedRenderAttributeBuffer", DataBuf, ib) )
       => /\ result' = result
          /\ events' = <<>>
          /\ UNCHANGED <<existingIndexedViews, attr, handles, data,
                         hostBufferIsPopulated, renderAttributeBuffer>>]_vars

C9_Witness ==
  /\ lastCall = Call("getIndexedRenderAttributeBuffer", DataBuf, 2)
  /\ result.err = "none"
  /\ events = <<>>
  /\ Len(Views(DataBuf)) = 1
  /\ Views(DataBuf)[1].viewBuffer = result.ret
  /\ attr[result.ret].val = <<11, 10>>

Precedes(log, e1, e2) ==
  \A j \in 1 .. Len(log) : log[j] = e2 => \E i \in 1 .. (j - 1) : log[i] = e1
LiveViews(b) == {k \in 1 .. Len(Views(b)) : ~IsExpired(Views(b)[k])}
Device(b) == attr[renderAttributeBuffer[b]].val
ProgramState == <<hostBufferIsPopulated, data, renderAttributeBuffer,
                  existingIndexedViews, attr, handles>>

\* C11: when a device buffer exists, markRenderAttributeBufferUpdated() ends
\* with the host not populated and empty, the canonical source RenderBuffer
\* and a redraw requested; the host is invalidated first, then the views are
\* refreshed, then the redraw is requested, and every live indexed view is
\* refreshed by the device-side copy program (computeFeedback), never by a
\* host-side gather and upload.
C11_MarkDeviceUpdatedOrder ==
  [][( /\ lastCall' = Call("markRenderAttributeBufferUpdated", DataBuf, 0)
       /\ renderAttributeBuffer[DataBuf] # NoBuffer
       /\ result'.err # "crash" )
     => /\ result'.err = "none"
        /\ ~hostBufferIsPopulated'[DataBuf]
        /\ data'[DataBuf] = <<>>
        /\ Source(DataBuf)' = "RenderBuffer"
        /\ events'[1] = <<"invalidateHostBuffer", DataBuf>>
        /\ Count(events', <<"invalidateHostBuffer", DataBuf>>) = 1
        /\ Count(events', <<"updateIndexedViews", DataBuf>>) = 1
        /\ events'[Len(events')] = <<"requestRedraw", 0>>
        /\ Count(events', <<"requestRedraw", 0>>) = 1
        /\ Tags(events') \cap {"gather", "setData"} = {}
        /\ \A k \in LiveViews(DataBuf)' :
             LET e == Views(DataBuf)'[k]
                 p == e.deviceUpdateProgram
             IN /\ Count(events', <<"computeFeedback", e.viewBuffer>>) = 1
                /\ Precedes(events', <<"updateIndexedViews", DataBuf>>,
                            <<"computeFeedback", e.viewBuffer>>)
                /\ p.set /\ p.val_in = renderAttributeBuffer[DataBuf]
                /\ p.val_out = e.viewBuffer
                /\ InRange(Device(DataBuf), p.index) =>
                     attr'[e.viewBuffer].val =
                       [j \in 1 .. Len(p.index) |-> Device(DataBuf)[p.index[j] + 1]]]_vars

C11_Witness ==
  /\ lastCall = Call("markRenderAttributeBufferUpdated", DataBuf, 0)
  /\ result.err = "none"
  /\ renderAttributeBuffer[DataBuf] # NoBuffer
  /\ Device(DataBuf) = <<10, 11>>
  /\ \E k \in LiveViews(DataBuf) :
       /\ Count(events, <<"computeFeedback", Views(DataBuf)[k].viewBuffer>>) = 1
       /\ attr[Views(DataBuf)[k].viewBuffer].val = <<11, 10>>
  /\ events[Len(events)] = <<"requestRedraw", 0>>

\* C12: on a buffer that gets computed, recomputeIfPopulated() in the
\* NeedsCompute state invokes computeFunc never and changes nothing; in the
\* HostData and RenderBuffer states it empties the host array, then invokes
\* computeFunc exactly once, and ends with canonical source HostData, the
\* device buffer (if there is one) holding the newly computed host array and
\* every live indexed view gathered from that array.
C12_RecomputeIfPopulated ==
  [][( /\ dataGetsComputed[DataBuf]
       /\ lastCall' = Call("recomputeIfPopulated", DataBuf, 0)
       /\ result'.err # "crash" )
     => IF Source(DataBuf) = "NeedsCompute"
          THEN /\ result' = Returned(NoValue)
               /\ events' = <<>>
               /\ UNCHANGED ProgramState
          ELSE /\ result'.err = "none"
               /\ events'[1] = <<"invalidateHostBuffer", DataBuf>>
               /\ events'[2] = <<"computeFunc", DataBuf>>
               /\ Count(events', <<"computeFunc", DataBuf>>) = 1
               /\ Source(DataBuf)' = "HostData"
               /\ data'[DataBuf] \in Produced(DataBuf)
               /\ renderAttributeBuffer'[DataBuf] = renderAttributeBuffer[DataBuf]
               /\ renderAttributeBuffer[DataBuf] # NoBuffer =>
                    Device(DataBuf)' = data'[DataBuf]
               /\ \A k \in LiveViews(DataBuf)' :
                    LET e == Views(DataBuf)'[k] IN
                      InRange(data'[DataBuf], data'[e.indices]) =>
                        attr'[e.viewBuffer].val =
                          [j \in 1 .. Len(data'[e.indices]) |->
                             data'[DataBuf][data'[e.indices][j] + 1]]]_vars

C12_Witness ==
  /\ lastCall = Call("recomputeIfPopulated", DataBuf, 0)
  /\ result.err = "none"
  /\ Count(events, <<"computeFunc", DataBuf>>) = 1
  /\ renderAttributeBuffer[DataBuf] # NoBuffer
  /\ data[DataBuf] = <<11, 10>>
  /\ Device(DataBuf) = <<11, 10>>
  /\ \E k \in LiveViews(DataBuf) :
       /\ data[Views(DataBuf)[k].indices] = <<1, 0>>
       /\ attr[Views(DataBuf)[k].viewBuffer].val = <<10, 11>>

\* C13: recomputeIfPopulated() on a buffer that was constructed without a
\* compute function raises a usage error in every state, and the failed call
\* changes nothing: the populated flag, the host array, the device buffer,
\* the view cache are as before, and no redraw is requested.
C13_RecomputeWithoutComputeFunc ==
  [][( /\ ~dataGetsComputed[DataBuf]
       /\ lastCall' = Call("recomputeIfPopulated", DataBuf, 0) )
     => /\ result'.err = "usage"
        /\ events' = <<>>
        /\ UNCHANGED ProgramState]_vars

C13_Witness ==
  /\ lastCall = Call("recomputeIfPopulated", DataBuf, 0)
  /\ result.err = "usage"
  /\ ~dataGetsComputed[DataBuf]
  /\ ~hostBufferIsPopulated[DataBuf]
  /\ renderAttributeBuffer[DataBuf] = NoBuffer

\* C14: once a device buffer exists, every step leaves the buffer's
\* renderAttributeBuffer the same, live object, and getRenderAttributeBuffer()
\* returns that object; a view buffer that a caller holds before and after a
\* step stays alive and stays the buffer of its cache entry.  No operation
\* swaps a buffer for another one, only contents change.
C14_BufferIdentityStable ==
  [][result'.err # "crash" =>
       \A b \in AllBufs :
         /\ renderAttributeBuffer[b] # NoBuffer =>
              /\ renderAttributeBuffer'[b] = renderAttributeBuffer[b]
              /\ attr'[renderAttributeBuffer[b]].alive
         /\ (lastCall' = Call("getRenderAttributeBuffer", b, 0) /\ result'.err = "none") =>
              /\ result'.ret = renderAttributeBuffer'[b]
              /\ result'.ret # NoBuffer
              /\ attr'[result'.ret].alive
         /\ \A k \in LiveViews(b) :
              LET e == Views(b)[k] IN
                (e.viewBuffer \in handles /\ e.viewBuffer \in handles') =>
                  /\ attr'[e.viewBuffer].alive
                  /\ \E j \in LiveViews(b)' :
                       /\ Views(b)'[j].indices = e.indices
                       /\ Views(b)'[j].viewBuffer = e.viewBuffer]_vars

C14_Witness ==
  /\ lastCall = Call("getRenderAttributeBuffer", DataBuf, 0)
  /\ result = Returned(renderAttributeBuffer[DataBuf])
  /\ events = <<>>
  /\ ~hostBufferIsPopulated[DataBuf]
  /\ \E k \in LiveViews(DataBuf) : Views(DataBuf)[k].viewBuffer \in handles

\* C15: a buffer constructed over a host array without a compute function
\* starts with source HostData, size() the length of the array, getValue(i)
\* its element i and hasData() true; a buffer constructed with a compute
\* function starts with source NeedsCompute, size() 0 and hasData() false,
\* and after ensureHostBufferPopulated() its size() is the computed length and
\* getValue(0) the first computed element.
C15_ConstructionScenarios ==
  [][lastCall.op = "construct" =>
       IF ~dataGetsComputed[DataBuf]
         THEN /\ Source(DataBuf) = "HostData"
              /\ lastCall' = Call("size", DataBuf, 0) =>
                   result' = Returned(Len(data[DataBuf]))
              /\ \A i \in 0 .. (MaxLen - 1) :
                   (i < Len(data[DataBuf]) /\ lastCall' = Call("getValue", DataBuf, i)) =>
                     result' = Returned(data[DataBuf][i + 1])
              /\ lastCall' = Call("hasData", DataBuf, 0) =>
                   (result'.err = "none" /\ result'.ret = TRUE)
         ELSE /\ Source(DataBuf) = "NeedsCompute"
              /\ lastCall' = Call("size", DataBuf, 0) => result' = Returned(0)
              /\ lastCall' = Call("hasData", DataBuf, 0) =>
                   (result'.err = "none" /\ result'.ret = FALSE)
              /\ lastCall' = Call("ensureHostBufferPopulated", DataBuf, 0) =>
                   /\ result'.err = "none"
                   /\ Count(events', <<"computeFunc", DataBuf>>) = 1
                   /\ data'[DataBuf] \in Produced(DataBuf)
                   /\ (size(Cur, DataBuf))' = [Cur' EXCEPT !.ret = Len(data'[DataBuf])]
                   /\ Len(data'[DataBuf]) > 0 =>
                        (getValue(Cur, DataBuf, 0))' =
                          [Cur' EXCEPT !.ret = data'[DataBuf][1]]]_vars

C15_Witness ==
  /\ lastCall = Call("ensureHostBufferPopulated", DataBuf, 0)
  /\ result.err = "none"
  /\ dataGetsComputed[DataBuf]
  /\ events[1] = <<"computeFunc", DataBuf>>
  /\ data[DataBuf] = <<10, 11>>
  /\ renderAttributeBuffer[DataBuf] = NoBuffer
  /\ size(Cur, DataBuf).ret = 2
  /\ getValue(Cur, DataBuf, 0).ret = 10

\* C16: markHostBufferUpdated() on a buffer that has a device buffer
\* overwrites the device buffer with the whole host array, so that the device
\* contents equal the host array when it returns, and requests a redraw; on a
\* buffer without a device buffer it creates none and requests no redraw; the
\* upload and the redraw request come before the refresh of the views.
C16_MarkHostUpdatedUpload ==
  [][\A b \in AllBufs :
       (lastCall' = Call("markHostBufferUpdated", b, 0) /\ result'.err # "crash") =>
         /\ data'[b] = data[b]
         /\ renderAttributeBuffer'[b] = renderAttributeBuffer[b]
         /\ Count(events', <<"updateIndexedViews", b>>) = 1
         /\ \A k \in 1 .. Len(events') :
              events'[k][1] \in {"gather", "computeFeedback"} =>
                Precedes(events', <<"updateIndexedViews", b>>, events'[k])
         /\ IF renderAttributeBuffer[b] # NoBuffer
              THEN /\ Device(b)' = data'[b]
                   /\ Count(events', <<"setData", renderAttributeBuffer[b]>>) = 1
                   /\ Count(events', <<"requestRedraw", 0>>) = 1
                   /\ Precedes(events', <<"setData", renderAttributeBuffer[b]>>,
                               <<"requestRedraw", 0>>)
                   /\ Precedes(events', <<"requestRedraw", 0>>,
                               <<"updateIndexedViews", b>>)
              ELSE /\ Tags(events') \cap {"requestRedraw", "generateAttributeBuffer"} = {}
                   /\ ~attr'[b].alive]_vars

C16_Witness ==
  /\ lastCall = Call("markHostBufferUpdated", DataBuf, 0)
  /\ result.err = "none"
  /\ renderAttributeBuffer[DataBuf] # NoBuffer
  /\ data[DataBuf] = <<10, 11>>
  /\ Device(DataBuf) = <<10, 11>>
  /\ Count(events, <<"requestRedraw", 0>>) = 1
  /\ \E k \in LiveViews(DataBuf) : attr[Views(DataBuf)[k].viewBuffer].val = <<11, 10>>

\* C17: invalidateHostBuffer() sets hostBufferIsPopulated to false and
\* empties the host array and changes nothing else: the device buffer and
\* its contents, the view cache, the contents of every view are as before,
\* no redraw is requested and no view is refreshed.
C17_InvalidateHostFrame ==
  [][\A b \in AllBufs :
       lastCall' = Call("invalidateHostBuffer", b, 0) =>
         /\ result' = Returned(NoValue)
         /\ hostBufferIsPopulated' = [hostBufferIsPopulated EXCEPT ![b] = FALSE]
         /\ data' = [data EXCEPT ![b] = <<>>]
         /\ UNCHANGED <<renderAttributeBuffer, existingIndexedViews, attr, handles>>
         /\ events' = << <<"invalidateHostBuffer", b>> >>]_vars

C17_Witness ==
  /\ lastCall = Call("invalidateHostBuffer", DataBuf, 0)
  /\ ~hostBufferIsPopulated[DataBuf]
  /\ data[DataBuf] = <<>>
  /\ renderAttributeBuffer[DataBuf] # NoBuffer
  /\ Device(DataBuf) = <<10, 11>>
  /\ \E k \in LiveViews(DataBuf) : attr[Views(DataBuf)[k].viewBuffer].val = <<11, 10>>

\* C18: hasData() is true exactly when the host buffer is populated or a
\* device buffer exists, whether or not the buffer gets computed; that is,
\* exactly when canonical-source resolution yields HostData or RenderBuffer;
\* it never raises, also in the state in which resolution raises, and it
\* changes nothing.
C18_HasData ==
  [][ /\ Ok(hasData(Cur, DataBuf))
      /\ hasData(Cur, DataBuf).ret =
           (hostBufferIsPopulated[DataBuf] \/ renderAttributeBuffer[DataBuf] # NoBuffer)
      /\ hasData(Cur, DataBuf).ret = (Source(DataBuf) \in {"HostData", "RenderBuffer"})
      /\ lastCall' = Call("hasData", DataBuf, 0) =>
           /\ result'.err = "none"
           /\ result'.ret = hasData(Cur, DataBuf).ret
           /\ events' = <<>>
           /\ UNCHANGED ProgramState ]_vars

C18_Witness ==
  /\ lastCall = Call("hasData", DataBuf, 0)
  /\ result.err = "none"
  /\ result.ret = FALSE
  /\ Source(DataBuf) = "exception"

C20_NeedsComputeRefreshUnreachable ==
  result.err # "needs_compute"

\* C21 (as claimed): when a view refresh has run while the canonical source
\* is RenderBuffer, each live view equals [device[indices[k]] : k] for the
\* index buffer's contents as they are at that refresh, also when the index
\* buffer changed after the entry's device-update program was created.
C21_DeviceRefreshUsesCurrentIndices ==
  [][( /\ lastCall' = Call("markRenderAttributeBufferUpdated", DataBuf, 0)
       /\ renderAttributeBuffer[DataBuf] # NoBuffer
       /\ result'.err = "none" )
     => \A k \in LiveViews(DataBuf)' :
          LET e == Views(DataBuf)'[k]
              idx == data'[e.indices]
          IN (hostBufferIsPopulated'[e.indices] /\ InRange(Device(DataBuf)', idx)) =>
               attr'[e.viewBuffer].val =
                 [j \in 1 .. Len(idx) |-> Device(DataBuf)'[idx[j] + 1]]]_vars

\* the cache entries of buffer b that have a device-update program, and the
\* live entries that are keyed by index buffer ib
WithProgram(b) == {k \in 1 .. Len(Views(b)) : Views(b)[k].deviceUpdateProgram.set}
LiveFor(b, ib) == {k \in LiveViews(b) : uniqueID(Views(b)[k].indices) = uniqueID(ib)}

\* C22: once a cache entry has a device-update program, the program keeps
\* the entry's view buffer alive: the entry never expires and no pruning
\* removes it, also when no caller holds the buffer any more; the view
\* buffers that survive without a holder are at most one per index-buffer
\* identity.
C22_ProgramKeepsViewAlive ==
  [][result'.err # "crash" =>
       /\ \A k \in WithProgram(DataBuf) :
            LET e == Views(DataBuf)[k] IN
              /\ ~IsExpired(e)
              /\ attr[e.viewBuffer].alive
              /\ e.deviceUpdateProgram.val_out = e.viewBuffer
              /\ \E j \in WithProgram(DataBuf)' :
                   /\ Views(DataBuf)'[j].viewBuffer = e.viewBuffer
                   /\ Views(DataBuf)'[j].indices = e.indices
                   /\ attr'[e.viewBuffer].alive
       /\ \A v \in ViewIds :
            (attr[v].alive /\ v \notin handles) =>
              \E k \in WithProgram(DataBuf) : Views(DataBuf)[k].viewBuffer = v
       /\ \A ib \in IndexBufs :
            Cardinality({k \in WithProgram(DataBuf) :
                           uniqueID(Views(DataBuf)[k].indices) = uniqueID(ib)}) <= 1
       /\ Cardinality({v \in ViewIds : attr[v].alive /\ v \notin handles})
            <= Cardinality({uniqueID(ib) : ib \in IndexBufs})]_vars

C22_Witness ==
  /\ handles = {}
  /\ Cardinality(WithProgram(DataBuf)) = 2
  /\ Cardinality({v \in ViewIds : attr[v].alive}) = 2
  /\ lastCall = Call("markRenderAttributeBufferUpdated", DataBuf, 0)
  /\ Count(events, <<"computeFeedback", Views(DataBuf)[1].viewBuffer>>) = 1
  /\ "erase" \notin Tags(events)

\* C26: in every reachable state the view cache holds at most one live entry
\* per index-buffer uniqueID, and getIndexedRenderAttributeBuffer appends an
\* entry only when no live entry of that identity exists.
C26_OneLiveEntryPerIndex ==
  [][ /\ \A ib \in IndexBufs : Cardinality(LiveFor(DataBuf, ib)) <= 1
      /\ \A ib \in IndexBufs :
           ( /\ lastCall' = Call("getIndexedRenderAttributeBuffer", DataBuf, ib)
             /\ result'.err # "crash" )
           => /\ Cardinality(LiveFor(DataBuf, ib)') <= 1
              /\ LiveFor(DataBuf, ib) # {} =>
                   /\ Len(Views(DataBuf)') = Cardinality(LiveViews(DataBuf))
                   /\ "generateAttributeBuffer" \notin Tags(events')
              /\ (LiveFor(DataBuf, ib) = {} /\ result'.err = "none") =>
                   /\ Len(Views(DataBuf)') = Cardinality(LiveViews(DataBuf)) + 1
                   /\ Views(DataBuf)'[Len(Views(DataBuf)')].indices = ib ]_vars

C26_Witness ==
  /\ lastCall = Call("getIndexedRenderAttributeBuffer", DataBuf, 3)
  /\ result.err = "none"
  /\ events = <<>>
  /\ Len(Views(DataBuf)) = 2
  /\ Cardinality(LiveFor(DataBuf, 2)) = 1
  /\ Cardinality(LiveFor(DataBuf, 3)) = 1

\* C30: a markRenderAttributeBufferUpdated() that raises during the view
\* refresh is not rolled back: the host stays invalidated (flag false, array
\* empty), no redraw is requested, the views from the failing entry on are
\* not refreshed, and the next call starts from that state.
C30_NoRollback ==
  [][( /\ lastCall' = Call("markRenderAttributeBufferUpdated", DataBuf, 0)
       /\ result'.err \notin {"none", "crash"} )
     => /\ ~hostBufferIsPopulated'[DataBuf]
        /\ data'[DataBuf] = <<>>
        /\ events'[1] = <<"invalidateHostBuffer", DataBuf>>
        /\ "requestRedraw" \notin Tags(events')
        /\ Tags(events') \cap {"gather", "setData", "computeFeedback"} = {}
        /\ attr' = attr
        /\ renderAttributeBuffer' = renderAttributeBuffer
        /\ Keys(Views(DataBuf)') =
             Keys(SelectSeq(Views(DataBuf), LAMBDA e : ~IsExpired(e)))
        /\ LiveViews(DataBuf)' # {}
        /\ Source(DataBuf)' \in {"NeedsCompute", "exception"}]_vars

C30_Witness ==
  /\ lastCall = Call("markRenderAttributeBufferUpdated", DataBuf, 0)
  /\ result.err = "needs_compute"
  /\ ~hostBufferIsPopulated[DataBuf]
  /\ data[DataBuf] = <<>>
  /\ Cardinality(LiveViews(DataBuf)) = 2
  /\ \A k \in LiveViews(DataBuf) : attr[Views(DataBuf)[k].viewBuffer].val = <<11, 10>>

\* C23: on a cache miss getIndexedRenderAttributeBuffer(indices) populates
\* the host array of this buffer and of the index buffer, returns a newly
\* allocated device buffer that holds [data[indices[k]] : k], and appends
\* exactly one cache entry, keyed by the index buffer and without a
\* device-update program; the cache's reference is weak, so the new buffer
\* dies when the caller releases its handle.
C23_CacheMiss ==
  [][ /\ \A ib \in IndexBufs :
           ( /\ lastCall' = Call("getIndexedRenderAttributeBuffer", DataBuf, ib)
             /\ LiveFor(DataBuf, ib) = {}
             /\ result'.err = "none" )
           => LET v == result'.ret
                  live == SelectSeq(Views(DataBuf), LAMBDA e : ~IsExpired(e))
              IN /\ CASE Source(DataBuf) = "HostData" -> data'[DataBuf] = data[DataBuf]
                      [] Source(DataBuf) = "RenderBuffer" -> data'[DataBuf] = Device(DataBuf)
                      [] OTHER -> /\ Count(events', <<"computeFunc", DataBuf>>) = 1
                                  /\ data'[DataBuf] \in Produced(DataBuf)
                 /\ CASE Source(ib) = "HostData" -> data'[ib] = data[ib]
                      [] Source(ib) = "RenderBuffer" -> data'[ib] = Device(ib)
                      [] OTHER -> /\ Count(events', <<"computeFunc", ib>>) = 1
                                  /\ data'[ib] \in Produced(ib)
                                  /\ Source(ib)' = "HostData"
                 /\ v \in ViewIds /\ ~attr[v].alive /\ attr'[v].alive
                 /\ Count(events', <<"generateAttributeBuffer", v>>) = 1
                 /\ Cardinality({i \in AttrIds : attr'[i].alive}) =
                      Cardinality({i \in AttrIds : attr[i].alive}) + 1
                 /\ InRange(data'[DataBuf], data'[ib]) =>
                      attr'[v].val =
                        [j \in 1 .. Len(data'[ib]) |-> data'[DataBuf][data'[ib][j] + 1]]
                 /\ Views(DataBuf)' =
                      Append(live, [indices |-> ib, viewBuffer |-> v,
                                    deviceUpdateProgram |-> NoProgram])
                 /\ handles' = handles \cup {v}
      /\ \A k \in LiveViews(DataBuf) :
           ( /\ lastCall' = Call("releaseHandle", 0, Views(DataBuf)[k].viewBuffer)
             /\ ~Views(DataBuf)[k].deviceUpdateProgram.set )
           => /\ ~attr'[Views(DataBuf)[k].viewBuffer].alive
              /\ IsExpired(Views(DataBuf)'[k]) ]_vars

C23_Witness ==
  /\ lastCall = Call("getIndexedRenderAttributeBuffer", DataBuf, 2)
  /\ result.err = "none"
  /\ Count(events, <<"generateAttributeBuffer", result.ret>>) = 1
  /\ Count(events, <<"computeFunc", 2>>) = 1
  /\ <<"getAttributeBufferDataRange", DataBuf>> \in {events[k] : k \in 1 .. Len(events)}
  /\ data[DataBuf] = <<10, 11>>
  /\ data[2] = <<1, 0>>
  /\ attr[result.ret].val = <<11, 10>>
  /\ Len(Views(DataBuf)) = 1

\* C24: the device-update program of a cache entry is created at most once:
\* the first device-side refresh of the entry requests it and binds the
\* source buffer, the target view and the index stream; every later step
\* leaves the entry's program as it is, and a later device-side refresh runs
\* it without requesting or binding anything.
C24_ProgramCreatedOnce ==
  [][result'.err # "crash" =>
       \A k \in LiveViews(DataBuf) : \A j \in LiveViews(DataBuf)' :
         LET e == Views(DataBuf)[k]
             f == Views(DataBuf)'[j]
             v == e.viewBuffer
         IN f.viewBuffer = v =>
              /\ e.deviceUpdateProgram.set =>
                   /\ f.deviceUpdateProgram = e.deviceUpdateProgram
                   /\ Count(events', <<"requestShader", v>>) = 0
              /\ (~e.deviceUpdateProgram.set /\ f.deviceUpdateProgram.set) =>
                   /\ lastCall' = Call("markRenderAttributeBufferUpdated", DataBuf, 0)
                   /\ Count(events', <<"requestShader", v>>) = 1
                   /\ Count(events', <<"computeFeedback", v>>) = 1
                   /\ Precedes(events', <<"requestShader", v>>, <<"computeFeedback", v>>)
                   /\ f.deviceUpdateProgram =
                        [set |-> TRUE, val_in |-> renderAttributeBuffer[DataBuf],
                         val_out |-> v, hasIndex |-> TRUE, index |-> data'[e.indices]]
              /\ ( /\ lastCall' = Call("markRenderAttributeBufferUpdated", DataBuf, 0)
                   /\ renderAttributeBuffer[DataBuf] # NoBuffer
                   /\ result'.err = "none" ) =>
                   /\ f.deviceUpdateProgram.set
                   /\ Count(events', <<"computeFeedback", v>>) = 1]_vars

C24_Witness ==
  /\ lastCall = Call("markRenderAttributeBufferUpdated", DataBuf, 0)
  /\ result.err = "none"
  /\ \E k \in LiveViews(DataBuf) :
       /\ Views(DataBuf)[k].deviceUpdateProgram.set
       /\ Count(events, <<"computeFeedback", Views(DataBuf)[k].viewBuffer>>) = 1
       /\ Count(events, <<"requestShader", Views(DataBuf)[k].viewBuffer>>) = 0
       /\ Views(DataBuf)[k].deviceUpdateProgram.index = <<1, 0>>
       /\ attr[Views(DataBuf)[k].viewBuffer].val = <<11, 10>>

\* C25: whenever canonical-source resolution yields RenderBuffer a device
\* buffer exists, so neither "render buffer should be allocated but isn't"
\* (ensureHostBufferPopulated) nor "asked to copy indices, but has no
\* buffers" (ensureHaveBufferIndexCopyProgram) is ever raised.
C25_RenderBufferHasDeviceBuffer ==
  /\ result.err # "internal"
  /\ \A b \in AllBufs :
       (Alive /\ Source(b) = "RenderBuffer") =>
         /\ renderAttributeBuffer[b] # NoBuffer
         /\ attr[renderAttributeBuffer[b]].alive

C25_Witness ==
  /\ lastCall = Call("markRenderAttributeBufferUpdated", DataBuf, 0)
  /\ result.err = "none"
  /\ Source(DataBuf) = "RenderBuffer"
  /\ "requestShader" \in Tags(events)
  /\ "computeFeedback" \in Tags(events)

\* C27 (as claimed): markRenderAttributeBufferUpdated() directly followed by
\* markHostBufferUpdated() overwrites the device buffer with the emptied host
\* array: the call returns with canonical source HostData, size() 0, a device
\* buffer of zero elements and every live indexed view refreshed from the
\* empty host array.
C27_DeviceThenHostLosesData ==
  [][( /\ lastCall = Call("markRenderAttributeBufferUpdated", DataBuf, 0)
       /\ result.err = "none"
       /\ renderAttributeBuffer[DataBuf] # NoBuffer
       /\ lastCall' = Call("markHostBufferUpdated", DataBuf, 0) )
     => /\ result'.err = "none"
        /\ Source(DataBuf)' = "HostData"
        /\ (size(Cur, DataBuf))'.ret = 0
        /\ Device(DataBuf)' = <<>>
        /\ \A k \in LiveViews(DataBuf)' :
             LET e == Views(DataBuf)'[k] IN
               /\ Count(events', <<"gather", e.viewBuffer>>) = 1
               /\ InRange(data'[DataBuf], data'[e.indices])
               /\ attr'[e.viewBuffer].val = <<>>]_vars

\* C28: size() and hasData() change nothing; getValue(i) changes nothing
\* when the canonical source is HostData or RenderBuffer, also when it raises
\* out-of-range; when the source is NeedsCompute getValue(i) invokes
\* computeFunc exactly once and leaves the source HostData.
C28_ReadAccessorsFrame ==
  [][ /\ (lastCall'.op \in {"size", "hasData"} /\ lastCall'.buf = DataBuf) =>
           /\ UNCHANGED ProgramState
           /\ events' = <<>>
      /\ \A i \in 0 .. MaxLen :
           lastCall' = Call("getValue", DataBuf, i) =>
             IF Source(DataBuf) = "NeedsCompute"
               THEN /\ Count(events', <<"computeFunc", DataBuf>>) = 1
                    /\ Source(DataBuf)' = "HostData"
                    /\ data'[DataBuf] \in Produced(DataBuf)
                    /\ UNCHANGED <<renderAttributeBuffer, existingIndexedViews,
                                   attr, handles>>
               ELSE /\ UNCHANGED ProgramState
                    /\ "computeFunc" \notin Tags(events')
                    /\ Source(DataBuf) = "HostData" =>
                         (result'.err = "out_of_range") <=> (i >= Len(data[DataBuf]))
                    /\ Source(DataBuf) = "RenderBuffer" =>
                         (result'.err = "out_of_range") <=> (i >= Len(Device(DataBuf))) ]_vars

C28_Witness ==
  /\ lastCall = Call("getValue", DataBuf, 1)
  /\ result = Returned(11)
  /\ Source(DataBuf) = "RenderBuffer"
  /\ data[DataBuf] = <<>>
  /\ Device(DataBuf) = <<10, 11>>
  /\ dataGetsComputed[DataBuf]

\* C29: the first getRenderAttributeBuffer() populates the host array before
\* it allocates the device buffer: under NeedsCompute computeFunc runs
\* exactly once while no device buffer exists, so that nothing is uploaded
\* and no redraw is requested by it, and when the call returns the device
\* buffer holds the host array and the canonical source is HostData.
C29_FirstGetRenderAttributeBuffer ==
  [][( /\ lastCall' = Call("getRenderAttributeBuffer", DataBuf, 0)
       /\ renderAttributeBuffer[DataBuf] = NoBuffer )
     => IF result'.err = "none"
          THEN /\ Source(DataBuf) \in {"HostData", "NeedsCompute"}
               /\ Source(DataBuf) = "NeedsCompute" =>
                    /\ Count(events', <<"computeFunc", DataBuf>>) = 1
                    /\ events'[1] = <<"computeFunc", DataBuf>>
                    /\ Precedes(events', <<"updateIndexedViews", DataBuf>>,
                                <<"generateAttributeBuffer", DataBuf>>)
               /\ Source(DataBuf) = "HostData" =>
                    /\ "computeFunc" \notin Tags(events')
                    /\ data'[DataBuf] = data[DataBuf]
               /\ Count(events', <<"generateAttributeBuffer", DataBuf>>) = 1
               /\ Count(events', <<"setData", DataBuf>>) = 1
               /\ Precedes(events', <<"generateAttributeBuffer", DataBuf>>,
                           <<"setData", DataBuf>>)
               /\ "requestRedraw" \notin Tags(events')
               /\ result'.ret = renderAttributeBuffer'[DataBuf]
               /\ renderAttributeBuffer'[DataBuf] # NoBuffer
               /\ Device(DataBuf)' = data'[DataBuf]
               /\ Source(DataBuf)' = "HostData"
          ELSE /\ Source(DataBuf) = "exception"
               /\ UNCHANGED ProgramState]_vars

C29_Witness ==
  /\ lastCall = Call("getRenderAttributeBuffer", DataBuf, 0)
  /\ result.err = "none"
  /\ events[1] = <<"computeFunc", DataBuf>>
  /\ Count(events, <<"generateAttributeBuffer", DataBuf>>) = 1
  /\ data[DataBuf] = <<10, 11>>
  /\ Device(DataBuf) = <<10, 11>>
  /\ Source(DataBuf) = "HostData"

====
